---- MODULE Spec2Model ----
(***************************************************************************)
(* Open Surge Engine - physics system: obstacle map                        *)
(* (src/physics/obstaclemap.c).                                            *)
(*                                                                         *)
(* The obstacle map is a dynamic array of non-owning obstacle references.  *)
(* The obstacles themselves (obstacle.c) are an external collaborator: they*)
(* are modelled from their contract as immutable records with a solidity   *)
(* flag, a layer, and a collision mask from which the bounding region and  *)
(* the ground positions are derived.                                       *)
(***************************************************************************)
EXTENDS Integers, Sequences, FiniteSets, TLC

(* ---------------------------------------------------------------------- *)
(* Bounds of the model                                                     *)
(* ---------------------------------------------------------------------- *)

\* largest x coordinate of the world (coordinates are 0..MaxX)
MaxX == 1

\* largest y coordinate of the world (coordinates are 0..MaxY)
MaxY == 1

\* largest number of references held by the obstacle map
MaxLen == 3

XCoord == 0..MaxX
YCoord == 0..MaxY

(* ---------------------------------------------------------------------- *)
(* Enumerations                                                            *)
(* ---------------------------------------------------------------------- *)

\* movmode_t
MovModes == {"MM_FLOOR", "MM_RIGHTWALL", "MM_CEILING", "MM_LEFTWALL"}

\* grounddir_t
GroundDirs == {"GD_DOWN", "GD_LEFT", "GD_UP", "GD_RIGHT"}

\* obstaclelayer_t
OL_DEFAULT == "OL_DEFAULT"
OL_GREEN == "OL_GREEN"
OL_YELLOW == "OL_YELLOW"
Layers == {OL_DEFAULT, OL_GREEN, OL_YELLOW}

\* the null pointer
NULL == [null |-> TRUE]

(* ---------------------------------------------------------------------- *)
(* Obstacles (external, owned by the level)                                *)
(* ---------------------------------------------------------------------- *)

SetMin(S) == CHOOSE m \in S : \A n \in S : m <= n
SetMax(S) == CHOOSE m \in S : \A n \in S : m >= n

\* collision masks: sets of cells <<x, y>> of the world
MaskFull == {<<0, 0>>, <<1, 0>>, <<0, 1>>, <<1, 1>>}
MaskDiagonal == {<<0, 0>>, <<1, 1>>}
MaskLow == {<<0, 1>>, <<1, 1>>}
MaskAntiDiagonal == {<<1, 0>>, <<0, 1>>}
MaskLeft == {<<0, 0>>, <<0, 1>>}
MaskCorner == {<<0, 0>>}

\* the obstacles that exist; id is the identity of the object (its address)
Obstacles ==
    { [id |-> 1, solid |-> TRUE,  layer |-> OL_DEFAULT, mask |-> MaskLeft],
      [id |-> 2, solid |-> TRUE,  layer |-> OL_GREEN,   mask |-> MaskDiagonal],
      [id |-> 3, solid |-> FALSE, layer |-> OL_DEFAULT, mask |-> MaskCorner],
      [id |-> 4, solid |-> FALSE, layer |-> OL_YELLOW,  mask |-> MaskAntiDiagonal],
      [id |-> 5, solid |-> TRUE,  layer |-> OL_YELLOW,  mask |-> MaskFull],
      [id |-> 6, solid |-> FALSE, layer |-> OL_GREEN,   mask |-> MaskLow] }

\* the obstacles that the level loader registers in the obstacle map
LevelObstacles == {o \in Obstacles : o.mask \notin {MaskFull, MaskLow}}

Clip(v, lo, hi) == IF v < lo THEN lo ELSE IF v > hi THEN hi ELSE v

\* bounding region of a collision mask
MaskRegion(mask) ==
    [left   |-> SetMin({c[1] : c \in mask}),
     right  |-> SetMax({c[1] : c \in mask}),
     top    |-> SetMin({c[2] : c \in mask}),
     bottom |-> SetMax({c[2] : c \in mask})]

\* coordinate, along the axis of the direction, of the surface of a mask as
\* seen from (x,y): the first cell of the mask met in the column (row) of the
\* point when (x,y) is clipped to the region; the far edge of the region if
\* that column (row) holds no cell
MaskGround(mask, x, y, dir) ==
    LET r == MaskRegion(mask)
        cx == Clip(x, r.left, r.right)
        cy == Clip(y, r.top, r.bottom)
        col == {c[2] : c \in {d \in mask : d[1] = cx}}
        row == {c[1] : c \in {d \in mask : d[2] = cy}}
    IN  CASE dir = "GD_DOWN"  -> IF col = {} THEN r.bottom ELSE SetMin(col)
          [] dir = "GD_UP"    -> IF col = {} THEN r.top ELSE SetMax(col)
          [] dir = "GD_RIGHT" -> IF row = {} THEN r.right ELSE SetMin(row)
          [] dir = "GD_LEFT"  -> IF row = {} THEN r.left ELSE SetMax(row)

\* the geometry of every obstacle, by id: its region and its ground positions
Region == [i \in {o.id : o \in Obstacles} |->
              MaskRegion((CHOOSE o \in Obstacles : o.id = i).mask)]

Ground == [i \in {o.id : o \in Obstacles} |->
              [dir \in GroundDirs |-> [x \in XCoord |-> [y \in YCoord |->
                  MaskGround((CHOOSE o \in Obstacles : o.id = i).mask, x, y, dir)]]]]

obstacle_is_solid(o) == o.solid

obstacle_get_layer(o) == o.layer

\* axis-aligned overlap test between the region of the obstacle and the
\* rectangle (x1,y1,x2,y2), x1 <= x2, y1 <= y2
obstacle_got_collision(o, px1, py1, px2, py2) ==
    /\ Region[o.id].left <= px2
    /\ Region[o.id].right >= px1
    /\ Region[o.id].top <= py2
    /\ Region[o.id].bottom >= py1

\* ground position of the obstacle as seen from (x,y) in the given direction
obstacle_ground_position(o, x, y, dir) == Ground[o.id][dir][x][y]

(* ---------------------------------------------------------------------- *)
(* State                                                                   *)
(* ---------------------------------------------------------------------- *)

VARIABLES
    obstacle,       \* obstaclemap->obstacle: sequence of obstacle references
    x1, y1, x2, y2, \* the probe rectangle of the caller's sensor
    mm,             \* the movement mode of the caller
    layer_filter,   \* the layer filter of the caller
    call,           \* the last operation made on the map ("none" if no map)
    ret,            \* what that query returned
    a, b,           \* arguments of a direct call of pick_best_obstacle
    picked,         \* result of that call: [done, value]
    handle,         \* the caller's obstaclemap_t pointer: "valid" or "null"
    heap,           \* the obstacles owned by the level, by id; Freed if destroyed
    menu,           \* mobilemenu.c: state, button[].state, alpha (button[].actor->
                    \* alpha), touch_start (static of handle_touch_input),
                    \* mouse_input (IB_FIRE1: down, old, x), input (BACK_BUTTON:
                    \* down, old) and scene: "none", "menu" (on the scene
                    \* stack) or "popped"
    menu_last,      \* history: what the last operation of the menu did, and
                    \* where the touch being held began
    timer,          \* timer.c: the internal data, and al_time, the value
                    \* al_get_time() returns now
    timer_last      \* history: the last operation of the timer, the number of
                    \* timer_update calls made while not paused, and the
                    \* values returned by the last two timer_get_now calls

menuvars == <<menu, menu_last>>

timervars == <<timer, timer_last>>

vars == <<obstacle, x1, y1, x2, y2, mm, layer_filter, call, ret, a, b, picked,
          handle, heap, menuvars, timervars>>

\* no menu on the scene stack
MenuIdle ==
    /\ menu = [scene |-> "none"]
    /\ menu_last = [op |-> "none"]

\* the time manager is not used
TimerIdle ==
    /\ timer = [al_time |-> 0]
    /\ timer_last = [op |-> "none"]

\* a destroyed obstacle
Freed == [freed |-> TRUE]

\* the obstacles as the level created them
HeapInit == [i \in {o.id : o \in Obstacles} |-> CHOOSE o \in Obstacles : o.id = i]

sensor == <<x1, y1, x2, y2, mm, layer_filter>>

(* ---------------------------------------------------------------------- *)
(* Private methods                                                         *)
(* ---------------------------------------------------------------------- *)

\* a layer test that drops the wildcard role of the default obstacle layer
ignore_obstacle_nowildcard(o, lf) ==
    LET obstacle_layer == obstacle_get_layer(o)
    IN  lf # OL_DEFAULT /\ obstacle_layer # lf

\* a layer test with the last comparison inverted
ignore_obstacle_inverted(o, lf) ==
    LET obstacle_layer == obstacle_get_layer(o)
    IN  lf # OL_DEFAULT /\ obstacle_layer # OL_DEFAULT /\ obstacle_layer = lf

\* whether or not the given obstacle should be ignored, given a layer filter
ignore_obstacle(o, lf) ==
    LET obstacle_layer == obstacle_get_layer(o)
    IN  lf # OL_DEFAULT /\ obstacle_layer # OL_DEFAULT /\ obstacle_layer # lf

\* one-way platforms, MM_FLOOR, with a strict comparison
oneway_floor_strict(pa, pb, px1, py1, px2, py2) ==
    LET ha == obstacle_ground_position(pa, px2, py2, "GD_DOWN")
        hb == obstacle_ground_position(pb, px2, py2, "GD_DOWN")
    IN  IF ha > hb THEN pa ELSE pb

\* one-way platforms, case MM_FLOOR
oneway_floor(pa, pb, px1, py1, px2, py2) ==
    LET ha == obstacle_ground_position(pa, px2, py2, "GD_DOWN")
        hb == obstacle_ground_position(pb, px2, py2, "GD_DOWN")
    IN  IF ha >= hb THEN pa ELSE pb

\* one-way platforms, MM_RIGHTWALL, with the comparison of the solid case
oneway_rightwall_lesser(pa, pb, px1, py1, px2, py2) ==
    LET ha == obstacle_ground_position(pa, px2, py2, "GD_RIGHT")
        hb == obstacle_ground_position(pb, px2, py2, "GD_RIGHT")
    IN  IF ha < hb THEN pa ELSE pb

\* one-way platforms, case MM_RIGHTWALL
oneway_rightwall(pa, pb, px1, py1, px2, py2) ==
    LET ha == obstacle_ground_position(pa, px2, py2, "GD_RIGHT")
        hb == obstacle_ground_position(pb, px2, py2, "GD_RIGHT")
    IN  IF ha >= hb THEN pa ELSE pb

\* one-way platforms, case MM_CEILING
oneway_ceiling(pa, pb, px1, py1, px2, py2) ==
    LET ha == obstacle_ground_position(pa, px2, py1, "GD_UP")
        hb == obstacle_ground_position(pb, px2, py1, "GD_UP")
    IN  IF ha < hb THEN pa ELSE pb

\* one-way platforms, MM_LEFTWALL, with the comparison of the solid case
oneway_leftwall_greater(pa, pb, px1, py1, px2, py2) ==
    LET ha == obstacle_ground_position(pa, px1, py2, "GD_LEFT")
        hb == obstacle_ground_position(pb, px1, py2, "GD_LEFT")
    IN  IF ha >= hb THEN pa ELSE pb

\* one-way platforms, case MM_LEFTWALL
oneway_leftwall(pa, pb, px1, py1, px2, py2) ==
    LET ha == obstacle_ground_position(pa, px1, py2, "GD_LEFT")
        hb == obstacle_ground_position(pb, px1, py2, "GD_LEFT")
    IN  IF ha < hb THEN pa ELSE pb

\* one-way platforms only: get the shortest obstacle
pick_shortest(pa, pb, px1, py1, px2, py2, pmm) ==
    CASE pmm = "MM_FLOOR"     -> oneway_floor(pa, pb, px1, py1, px2, py2)
      [] pmm = "MM_RIGHTWALL" -> oneway_rightwall(pa, pb, px1, py1, px2, py2)
      [] pmm = "MM_CEILING"   -> oneway_ceiling(pa, pb, px1, py1, px2, py2)
      [] pmm = "MM_LEFTWALL"  -> oneway_leftwall(pa, pb, px1, py1, px2, py2)

\* solid obstacles, MM_FLOOR, measured at the other corner of the probe
solid_floor_x1(pa, pb, px1, py1, px2, py2) ==
    LET x == px1
        y == py2
        ha == obstacle_ground_position(pa, x, y, "GD_DOWN")
        hb == obstacle_ground_position(pb, x, y, "GD_DOWN")
    IN  IF ha < hb THEN pa ELSE pb

\* solid obstacles, case MM_FLOOR
solid_floor(pa, pb, px1, py1, px2, py2) ==
    LET x == px2
        y == py2
        ha == obstacle_ground_position(pa, x, y, "GD_DOWN")
        hb == obstacle_ground_position(pb, x, y, "GD_DOWN")
    IN  IF ha < hb THEN pa ELSE pb

\* solid obstacles, MM_LEFTWALL, with the comparison of MM_RIGHTWALL
solid_leftwall_lesser(pa, pb, px1, py1, px2, py2) ==
    LET x == px1
        y == py2
        ha == obstacle_ground_position(pa, x, y, "GD_LEFT")
        hb == obstacle_ground_position(pb, x, y, "GD_LEFT")
    IN  IF ha < hb THEN pa ELSE pb

\* solid obstacles, case MM_LEFTWALL
solid_leftwall(pa, pb, px1, py1, px2, py2) ==
    LET x == px1
        y == py2
        ha == obstacle_ground_position(pa, x, y, "GD_LEFT")
        hb == obstacle_ground_position(pb, x, y, "GD_LEFT")
    IN  IF ha >= hb THEN pa ELSE pb

\* solid obstacles, case MM_CEILING
solid_ceiling(pa, pb, px1, py1, px2, py2) ==
    LET x == px2
        y == py1
        ha == obstacle_ground_position(pa, x, y, "GD_UP")
        hb == obstacle_ground_position(pb, x, y, "GD_UP")
    IN  IF ha >= hb THEN pa ELSE pb

\* solid obstacles, case MM_RIGHTWALL
solid_rightwall(pa, pb, px1, py1, px2, py2) ==
    LET x == px2
        y == py2
        ha == obstacle_ground_position(pa, x, y, "GD_RIGHT")
        hb == obstacle_ground_position(pb, x, y, "GD_RIGHT")
    IN  IF ha < hb THEN pa ELSE pb

\* get the tallest obstacle; "this shouldn't happen": return a
pick_tallest(pa, pb, px1, py1, px2, py2, pmm) ==
    CASE pmm = "MM_FLOOR"     -> solid_floor(pa, pb, px1, py1, px2, py2)
      [] pmm = "MM_LEFTWALL"  -> solid_leftwall(pa, pb, px1, py1, px2, py2)
      [] pmm = "MM_CEILING"   -> solid_ceiling(pa, pb, px1, py1, px2, py2)
      [] pmm = "MM_RIGHTWALL" -> solid_rightwall(pa, pb, px1, py1, px2, py2)
      [] OTHER -> pa

\* a null check that returns the null argument
pick_null_swapped(pa, pb) == IF pa = NULL THEN pa ELSE pb

\* NULL pointers should be handled: if a is NULL return b, else (b is NULL)
\* return a
pick_null(pa, pb) == IF pa = NULL THEN pb ELSE pa

\* a solidity check that always returns its first argument
pick_solid_first(pa, pb) == pa

\* a solidity check that prefers the one-way platform
pick_solid_inverted(pa, pb) ==
    IF ~obstacle_is_solid(pa) /\ obstacle_is_solid(pb) THEN pa ELSE pb

\* solid obstacles are more preferable than one-way platforms (exactly one
\* of a, b is solid)
pick_solid(pa, pb) ==
    IF ~obstacle_is_solid(pa) /\ obstacle_is_solid(pb) THEN pb ELSE pa

\* a one-way switch that lacks the case MM_LEFTWALL
OneWayCases_noleftwall == {"MM_FLOOR", "MM_RIGHTWALL", "MM_CEILING"}

\* the case labels of the switch of the one-way platforms
OneWayCases == {"MM_FLOOR", "MM_RIGHTWALL", "MM_CEILING", "MM_LEFTWALL"}

\* the case labels of the switch of the tallest obstacle
TallestCases == {"MM_FLOOR", "MM_LEFTWALL", "MM_CEILING", "MM_RIGHTWALL"}

\* considering that a and b overlap, which one should we pick?
pick_best_obstacle(pa, pb, px1, py1, px2, py2, pmm) ==
    IF pa = NULL \/ pb = NULL THEN pick_null(pa, pb)
    ELSE IF obstacle_is_solid(pa) # obstacle_is_solid(pb) THEN pick_solid(pa, pb)
    ELSE IF ~obstacle_is_solid(pa) /\ ~obstacle_is_solid(pb) /\ pmm \in OneWayCases
         THEN pick_shortest(pa, pb, px1, py1, px2, py2, pmm)
    ELSE pick_tallest(pa, pb, px1, py1, px2, py2, pmm)

\* the return statement by which pick_best_obstacle leaves
pick_return_site(pa, pb, pmm) ==
    IF pa = NULL \/ pb = NULL THEN "null"
    ELSE IF obstacle_is_solid(pa) # obstacle_is_solid(pb) THEN "solid"
    ELSE IF ~obstacle_is_solid(pa) /\ ~obstacle_is_solid(pb) /\ pmm \in OneWayCases
         THEN "shortest"
    ELSE IF pmm \in TallestCases THEN "tallest"
    ELSE "fallback"

(* ---------------------------------------------------------------------- *)
(* Public methods                                                          *)
(* ---------------------------------------------------------------------- *)

\* a scan that does not test the collision with the probe
RECURSIVE best_after_nocollision(_, _, _, _, _, _, _, _)
best_after_nocollision(map, n, px1, py1, px2, py2, pmm, lf) ==
    IF n = 0 THEN NULL
    ELSE LET best == best_after_nocollision(map, n - 1, px1, py1, px2, py2, pmm, lf)
             o == map[n]
         IN  IF ~ignore_obstacle(o, lf)
             THEN pick_best_obstacle(o, best, px1, py1, px2, py2, pmm)
             ELSE best

\* a scan that keeps the first candidate it finds
RECURSIVE best_after_first(_, _, _, _, _, _, _, _)
best_after_first(map, n, px1, py1, px2, py2, pmm, lf) ==
    IF n = 0 THEN NULL
    ELSE LET best == best_after_first(map, n - 1, px1, py1, px2, py2, pmm, lf)
             o == map[n]
         IN  IF ~ignore_obstacle(o, lf) /\ obstacle_got_collision(o, px1, py1, px2, py2)
                /\ best = NULL
             THEN pick_best_obstacle(o, best, px1, py1, px2, py2, pmm)
             ELSE best

\* a scan that passes the accumulated best as a and the scanned obstacle as b
RECURSIVE best_after_swapped(_, _, _, _, _, _, _, _)
best_after_swapped(map, n, px1, py1, px2, py2, pmm, lf) ==
    IF n = 0 THEN NULL
    ELSE LET best == best_after_swapped(map, n - 1, px1, py1, px2, py2, pmm, lf)
             o == map[n]
         IN  IF ~ignore_obstacle(o, lf) /\ obstacle_got_collision(o, px1, py1, px2, py2)
             THEN pick_best_obstacle(best, o, px1, py1, px2, py2, pmm)
             ELSE best

\* the value of best after the first n iterations of the loop
RECURSIVE best_after(_, _, _, _, _, _, _, _)
best_after(map, n, px1, py1, px2, py2, pmm, lf) ==
    IF n = 0 THEN NULL
    ELSE LET best == best_after(map, n - 1, px1, py1, px2, py2, pmm, lf)
             o == map[n]
         IN  IF ~ignore_obstacle(o, lf) /\ obstacle_got_collision(o, px1, py1, px2, py2)
             THEN pick_best_obstacle(o, best, px1, py1, px2, py2, pmm)
             ELSE best

obstaclemap_get_best_obstacle_at(map, px1, py1, px2, py2, pmm, lf) ==
    best_after(map, Len(map), px1, py1, px2, py2, pmm, lf)

\* a point query that also requires solidity
obstaclemap_obstacle_exists_solid(map, x, y, lf) ==
    \E i \in 1..Len(map) :
        /\ ~ignore_obstacle(map[i], lf)
        /\ obstacle_got_collision(map[i], x, y, x, y)
        /\ obstacle_is_solid(map[i])

\* a point query that requires exactly one registration at the point
obstaclemap_obstacle_exists_unique(map, x, y, lf) ==
    Cardinality({ i \in 1..Len(map) :
        ~ignore_obstacle(map[i], lf) /\ obstacle_got_collision(map[i], x, y, x, y) }) = 1

obstaclemap_obstacle_exists(map, x, y, lf) ==
    \E i \in 1..Len(map) :
        ~ignore_obstacle(map[i], lf) /\ obstacle_got_collision(map[i], x, y, x, y)

\* a solid query that does not test the solidity
obstaclemap_solid_exists_any(map, x, y, lf) ==
    \E i \in 1..Len(map) :
        /\ ~ignore_obstacle(map[i], lf)
        /\ obstacle_got_collision(map[i], x, y, x, y)

\* a solid query that does not apply the layer filter
obstaclemap_solid_exists_nofilter(map, x, y, lf) ==
    \E i \in 1..Len(map) :
        /\ obstacle_got_collision(map[i], x, y, x, y)
        /\ obstacle_is_solid(map[i])

obstaclemap_solid_exists(map, x, y, lf) ==
    \E i \in 1..Len(map) :
        /\ ~ignore_obstacle(map[i], lf)
        /\ obstacle_got_collision(map[i], x, y, x, y)
        /\ obstacle_is_solid(map[i])

(* ---------------------------------------------------------------------- *)
(* The obstacle map as a state machine                                     *)
(* ---------------------------------------------------------------------- *)

\* the caller's sensor: a normalised probe rectangle, a mode and a filter
SensorInit ==
    /\ x1 \in XCoord /\ x2 \in XCoord /\ x1 <= x2
    /\ y1 \in YCoord /\ y2 \in YCoord /\ y1 <= y2
    /\ mm \in MovModes
    /\ layer_filter \in Layers

\* obstaclemap_create(): an empty map
Init ==
    /\ obstacle = <<>>
    /\ SensorInit
    /\ call = "create"
    /\ ret = NULL
    /\ a = NULL /\ b = NULL
    /\ picked = [done |-> FALSE, value |-> NULL]
    /\ handle = "valid"
    /\ heap = HeapInit
    /\ MenuIdle /\ TimerIdle

\* an insertion that skips an obstacle that is already registered
AddObstacle_dedup(o) ==
    /\ handle = "valid"
    /\ Len(obstacle) < MaxLen
    /\ obstacle' = IF \E i \in 1..Len(obstacle) : obstacle[i] = o
                   THEN obstacle ELSE Append(obstacle, o)
    /\ call' = "add_obstacle"
    /\ ret' = NULL
    /\ UNCHANGED <<sensor, a, b, picked, handle, heap, menuvars, timervars>>

AddObstacle(o) ==
    /\ handle = "valid"
    /\ Len(obstacle) < MaxLen
    /\ obstacle' = Append(obstacle, o)
    /\ call' = "add_obstacle"
    /\ ret' = NULL
    /\ UNCHANGED <<sensor, a, b, picked, handle, heap, menuvars, timervars>>

\* a clear that forgets to reset the length of the array
Clear_keep ==
    /\ handle = "valid"
    /\ obstacle' = obstacle
    /\ call' = "clear"
    /\ ret' = NULL
    /\ UNCHANGED <<sensor, a, b, picked, handle, heap, menuvars, timervars>>

Clear ==
    /\ handle = "valid"
    /\ obstacle' = <<>>
    /\ call' = "clear"
    /\ ret' = NULL
    /\ UNCHANGED <<sensor, a, b, picked, handle, heap, menuvars, timervars>>

\* a destructor that also destroys the obstacles that the map refers to
Destroy_owning ==
    /\ handle = "valid"
    /\ obstacle' = <<>>
    /\ handle' = "null"
    /\ heap' = [i \in DOMAIN heap |->
                  IF \E k \in 1..Len(obstacle) : obstacle[k].id = i
                  THEN Freed ELSE heap[i]]
    /\ call' = "destroy"
    /\ ret' = NULL
    /\ UNCHANGED <<sensor, a, b, picked, menuvars, timervars>>

\* obstaclemap_destroy(): the array and the map are released, NULL is returned
Destroy ==
    /\ handle = "valid"
    /\ obstacle' = <<>>
    /\ handle' = "null"
    /\ call' = "destroy"
    /\ ret' = NULL
    /\ UNCHANGED <<sensor, a, b, picked, heap, menuvars, timervars>>

\* a query that removes the obstacle it returns from the map
GetBestObstacleAt_consuming ==
    /\ handle = "valid"
    /\ call' = "get_best_obstacle_at"
    /\ ret' = obstaclemap_get_best_obstacle_at(obstacle, x1, y1, x2, y2, mm, layer_filter)
    /\ obstacle' = SelectSeq(obstacle, LAMBDA o : o # ret')
    /\ UNCHANGED <<sensor, a, b, picked, handle, heap, menuvars, timervars>>

GetBestObstacleAt ==
    /\ handle = "valid"
    /\ call' = "get_best_obstacle_at"
    /\ ret' = obstaclemap_get_best_obstacle_at(obstacle, x1, y1, x2, y2, mm, layer_filter)
    /\ UNCHANGED <<obstacle, sensor, a, b, picked, handle, heap, menuvars, timervars>>

\* the point queries are made at the corner (x1,y1) of the sensor
ObstacleExists ==
    /\ handle = "valid"
    /\ call' = "obstacle_exists"
    /\ ret' = [bool |-> obstaclemap_obstacle_exists(obstacle, x1, y1, layer_filter)]
    /\ UNCHANGED <<obstacle, sensor, a, b, picked, handle, heap, menuvars, timervars>>

SolidExists ==
    /\ handle = "valid"
    /\ call' = "solid_exists"
    /\ ret' = [bool |-> obstaclemap_solid_exists(obstacle, x1, y1, layer_filter)]
    /\ UNCHANGED <<obstacle, sensor, a, b, picked, handle, heap, menuvars, timervars>>

Next ==
    \/ \E o \in LevelObstacles : AddObstacle(o)
    \/ Clear
    \/ Destroy
    \/ GetBestObstacleAt
    \/ ObstacleExists
    \/ SolidExists

Spec == Init /\ [][Next]_vars

(* ---------------------------------------------------------------------- *)
(* pick_best_obstacle called directly on any two arguments                 *)
(* ---------------------------------------------------------------------- *)

PickInit ==
    /\ obstacle = <<>>
    /\ SensorInit
    /\ call = "none"
    /\ ret = NULL
    /\ a \in Obstacles \cup {NULL}
    /\ b \in Obstacles \cup {NULL}
    /\ picked = [done |-> FALSE, value |-> NULL]
    /\ handle = "null"
    /\ heap = HeapInit
    /\ MenuIdle /\ TimerIdle

PickBestObstacle ==
    /\ ~picked.done
    /\ picked' = [done |-> TRUE, value |-> pick_best_obstacle(a, b, x1, y1, x2, y2, mm)]
    /\ UNCHANGED <<obstacle, sensor, call, ret, a, b, handle, heap, menuvars, timervars>>

PickNext == PickBestObstacle

PickSpec == PickInit /\ [][PickNext]_vars

(* ---------------------------------------------------------------------- *)
(* Time units. Times are counted in ticks of 1/300 s, in which the bounds  *)
(* of the frame delta and the fade time of the menu are whole numbers.     *)
(* ---------------------------------------------------------------------- *)

\* MINIMUM_DELTA = 1.0 / 60.0 s
MINIMUM_DELTA == 5

\* MAXIMUM_DELTA = 1.0 / 50.0 s
MAXIMUM_DELTA == 6

\* the values timer_get_delta() can return: 0.0 from a paused timer, else
\* a value clamped to MINIMUM_DELTA..MAXIMUM_DELTA
Deltas == {0} \cup (MINIMUM_DELTA..MAXIMUM_DELTA)

(* ---------------------------------------------------------------------- *)
(* Mobile menu (src/scenes/mobilemenu.c)                                   *)
(* ---------------------------------------------------------------------- *)

\* width of the screen, in pixels
ScreenWidth == 5

\* height of the screen, width and height of the image of a button
ScreenHeight == 1
ButtonWidth == 1
ButtonHeight == 1

\* mobilemenu_button_t
BUTTON_NONE == -1
BUTTON_BACK == 0
BUTTON_SCREENSHOT == 1
BUTTON_DEBUG == 2
BUTTON_INFO == 3
BUTTON_COUNT == 4
Buttons == 0..(BUTTON_COUNT - 1)

\* mobilemenu_buttonstate_t
ButtonStates == {"UNPRESSED", "PRESSED", "TRIGGERED"}

\* mobilemenustate_t
MenuStates == {"APPEARING", "WAITING", "DISAPPEARING", "TRIGGERED_BACK",
               "TRIGGERED_SCREENSHOT", "TRIGGERED_DEBUG", "TRIGGERED_INFO"}

TRIGGERED_STATE ==
    [bt \in Buttons |->
        CASE bt = BUTTON_BACK       -> "TRIGGERED_BACK"
          [] bt = BUTTON_SCREENSHOT -> "TRIGGERED_SCREENSHOT"
          [] bt = BUTTON_DEBUG      -> "TRIGGERED_DEBUG"
          [] bt = BUTTON_INFO       -> "TRIGGERED_INFO"]

\* the fade time of the buttons, in ticks. alpha is counted in units of
\* 1/FADE_TIME, so that alpha 1.0f is FADE_TIME and dt / FADE_TIME is dt.
\* The FADE_TIME of mobilemenu.c is 0.25 s, that is 75 ticks; the model fades
\* in fewer ticks, which still takes several cycles and both reaches and
\* oversteps the end of the fade.
FADE_TIME == 12

\* points of the screen a touch can be at
Positions == [x : 0..(ScreenWidth - 1), y : 0..(ScreenHeight - 1)]

INITIAL_BUTTON_POSITION == [x |-> 0, y |-> 0]

next_button_position(button_position) ==
    LET moved == [button_position EXCEPT !.x = @ + ButtonWidth]
    IN  IF moved.x + ButtonWidth > ScreenWidth
        THEN [x |-> INITIAL_BUTTON_POSITION.x, y |-> moved.y + ButtonHeight]
        ELSE moved

\* button[i].actor->position as set by the loop of mobilemenu_init
RECURSIVE button_position_of(_)
button_position_of(i) ==
    IF i = 0 THEN INITIAL_BUTTON_POSITION
    ELSE next_button_position(button_position_of(i - 1))

ButtonPosition == [i \in Buttons |-> button_position_of(i)]

\* the button that is displayed at a particular point in the screen
button_at(position) ==
    LET hit == { i \in Buttons :
                   /\ 0 <= position.x - ButtonPosition[i].x
                   /\ position.x - ButtonPosition[i].x < ButtonWidth
                   /\ 0 <= position.y - ButtonPosition[i].y
                   /\ position.y - ButtonPosition[i].y < ButtonHeight }
    IN  IF hit = {} THEN BUTTON_NONE ELSE SetMin(hit)

\* input_button_down, input_button_pressed, input_button_up of a button
\* whose present and previous states are i.down and i.old
input_button_down(i) == i.down
input_button_pressed(i) == i.down /\ ~i.old
input_button_up(i) == ~i.down /\ i.old

on_touch_start(btn, ts) ==
    LET bt == button_at(ts)
    IN  IF bt = BUTTON_NONE THEN btn
        ELSE [btn EXCEPT ![bt] = "PRESSED"]

on_touch_end(btn, ts, te) ==
    LET bt == button_at(ts)
        p == button_at(te)
    IN  IF bt = BUTTON_NONE \/ bt # p THEN btn
        ELSE [i \in Buttons |-> IF btn[i] = "PRESSED" THEN "TRIGGERED" ELSE "UNPRESSED"]

on_touch_move(btn, ts, tc) ==
    LET bt == button_at(ts)
        p == button_at(tc)
    IN  IF bt = BUTTON_NONE \/ bt = p THEN btn
        ELSE [i \in Buttons |-> "UNPRESSED"]

\* the touch event handle_touch_input sees in the mouse input
touch_event(m) ==
    IF input_button_up(m) THEN "end"
    ELSE IF input_button_pressed(m) THEN "start"
    ELSE IF input_button_down(m) THEN "move"
    ELSE "none"

\* detect touch input
handle_touch_input(mn) ==
    LET m == mn.mouse_input
    IN  IF input_button_up(m)
        THEN [mn EXCEPT !.button = on_touch_end(mn.button, mn.touch_start, m.pos)]
        ELSE IF input_button_pressed(m)
        THEN [mn EXCEPT !.touch_start = m.pos,
                        !.button = on_touch_start(mn.button, m.pos)]
        ELSE IF input_button_down(m)
        THEN [mn EXCEPT !.button = on_touch_move(mn.button, mn.touch_start, m.pos)]
        ELSE mn

update_button(bt, mn) ==
    IF mn.button[bt] = "TRIGGERED"
    THEN [mn EXCEPT !.button[bt] = "UNPRESSED", !.state = TRIGGERED_STATE[bt]]
    ELSE mn

\* the loop of update_waiting from button i on
RECURSIVE update_buttons_from(_, _)
update_buttons_from(i, mn) ==
    IF i >= BUTTON_COUNT THEN mn
    ELSE update_buttons_from(i + 1, update_button(i, mn))

\* appearing: fade in buttons
update_appearing(mn, dt) ==
    LET al == IF mn.alpha + dt < FADE_TIME THEN mn.alpha + dt ELSE FADE_TIME
    IN  [mn EXCEPT !.alpha = al,
                   !.state = IF al = FADE_TIME THEN "WAITING" ELSE @]

\* a fade out that leaves the scene one frame before the buttons are gone
update_disappearing_early(mn, dt) ==
    LET al == IF mn.alpha - dt > 0 THEN mn.alpha - dt ELSE 0
    IN  [mn EXCEPT !.alpha = al,
                   !.scene = IF al <= MAXIMUM_DELTA THEN "popped" ELSE @]

\* disappearing: fade out buttons
update_disappearing(mn, dt) ==
    LET al == IF mn.alpha - dt > 0 THEN mn.alpha - dt ELSE 0
    IN  [mn EXCEPT !.alpha = al,
                   !.scene = IF al = 0 THEN "popped" ELSE @]

\* a waiting state that reads the back button of the smartphone first
update_waiting_backfirst(mn) ==
    LET backed == IF input_button_pressed(mn.input)
                  THEN [mn EXCEPT !.state = TRIGGERED_STATE[BUTTON_BACK]] ELSE mn
    IN  update_buttons_from(0, handle_touch_input(backed))

\* waiting: detect if any button is pressed
update_waiting(mn) ==
    LET updated == update_buttons_from(0, handle_touch_input(mn))
    IN  IF input_button_pressed(mn.input)
        THEN [updated EXCEPT !.state = TRIGGERED_STATE[BUTTON_BACK]]
        ELSE updated

update_triggered_back(mn) == [mn EXCEPT !.state = "DISAPPEARING"]

update_triggered_screenshot(mn) == [mn EXCEPT !.state = "WAITING"]

update_triggered_debug(mn) == [mn EXCEPT !.state = "DISAPPEARING"]

update_triggered_info(mn) == [mn EXCEPT !.state = "WAITING"]

\* update[state]()
mobilemenu_update(mn, dt) ==
    CASE mn.state = "APPEARING"            -> update_appearing(mn, dt)
      [] mn.state = "WAITING"              -> update_waiting(mn)
      [] mn.state = "DISAPPEARING"         -> update_disappearing(mn, dt)
      [] mn.state = "TRIGGERED_BACK"       -> update_triggered_back(mn)
      [] mn.state = "TRIGGERED_SCREENSHOT" -> update_triggered_screenshot(mn)
      [] mn.state = "TRIGGERED_DEBUG"      -> update_triggered_debug(mn)
      [] mn.state = "TRIGGERED_INFO"       -> update_triggered_info(mn)

\* the statics of mobilemenu.c after mobilemenu_init; touch_start is a
\* static of handle_touch_input that no init resets
mobilemenu_init(ts) ==
    [state       |-> "APPEARING",
     button      |-> [i \in Buttons |-> "UNPRESSED"],
     alpha       |-> 0,
     touch_start |-> ts,
     mouse_input |-> [down |-> FALSE],
     input       |-> [down |-> FALSE],
     scene       |-> "menu"]

\* the menu between two cycles: the previous state of a button of an input
\* and the position of the mouse are overwritten by the next poll before
\* anything reads them, and are not kept
between_cycles(mn) ==
    [mn EXCEPT !.mouse_input = [down |-> @.down], !.input = [down |-> @.down]]

\* the history of an operation that is not an update
NoUpdate(op) ==
    [op |-> op, event |-> "none", fired |-> {}, frozen |-> FALSE, origin |-> {},
     ended |-> {}]

\* the menu has been pushed to the scene stack for the first time
MenuInit ==
    /\ obstacle = <<>>
    /\ x1 = 0 /\ y1 = 0 /\ x2 = 0 /\ y2 = 0
    /\ mm = "MM_FLOOR" /\ layer_filter = OL_DEFAULT
    /\ call = "none" /\ ret = NULL
    /\ a = NULL /\ b = NULL
    /\ picked = [done |-> FALSE, value |-> NULL]
    /\ handle = "null"
    /\ heap = HeapInit
    /\ menu = mobilemenu_init([x |-> 0, y |-> 0])
    /\ menu_last = NoUpdate("init")
    /\ TimerIdle

\* the menu is pushed to the scene stack again
MobileMenuInit ==
    /\ menu.scene = "popped"
    /\ menu' = mobilemenu_init(menu.touch_start)
    /\ menu_last' = NoUpdate("init")
    /\ UNCHANGED <<obstacle, sensor, call, ret, a, b, picked, handle, heap, timervars>>

\* one cycle of the main loop while the menu is the top scene: the inputs
\* are polled (the previous state of each button is the one of the last
\* cycle), then mobilemenu_update() runs with the frame delta of the timer.
\* The history records the touch event handled, the buttons it left in state
\* TRIGGERED, whether a fade read a frame delta of 0, where the touch that is
\* held began, and the touch that ended in this cycle.
MobileMenuUpdate ==
    /\ menu.scene = "menu"
    /\ \E down \in BOOLEAN, pos \in Positions, bk \in BOOLEAN, dt \in Deltas :
          LET polled == [menu EXCEPT
                            !.mouse_input = [down |-> down, old |-> menu.mouse_input.down,
                                             pos |-> pos],
                            !.input = [down |-> bk, old |-> menu.input.down]]
              waiting == menu.state = "WAITING"
              fading == menu.state \in {"APPEARING", "DISAPPEARING"}
          IN  /\ menu' = between_cycles(mobilemenu_update(polled, dt))
              /\ menu_last' =
                    [op |-> "update",
                     event |-> IF waiting THEN touch_event(polled.mouse_input) ELSE "none",
                     fired |-> IF waiting
                               THEN { i \in Buttons :
                                        handle_touch_input(polled).button[i] = "TRIGGERED" }
                               ELSE {},
                     frozen |-> fading /\ dt = 0,
                     origin |-> IF ~down THEN {}
                                ELSE IF ~menu.mouse_input.down THEN {pos}
                                ELSE menu_last.origin,
                     ended |-> IF waiting /\ input_button_up(polled.mouse_input)
                               THEN { [start |-> o, end |-> pos] : o \in menu_last.origin }
                               ELSE {}]
    /\ UNCHANGED <<obstacle, sensor, call, ret, a, b, picked, handle, heap, timervars>>

MenuNext == MobileMenuInit \/ MobileMenuUpdate

MenuSpec == MenuInit /\ [][MenuNext]_vars

\* the main loop calls mobilemenu_update() at every cycle for as long as the
\* menu is the top scene
MenuLiveSpec == MenuSpec /\ WF_vars(MobileMenuUpdate)

(* ---------------------------------------------------------------------- *)
(* Time manager (src/core/timer.c)                                         *)
(* ---------------------------------------------------------------------- *)

\* largest value of al_get_time(), in ticks
MaxTime == 7

\* largest value of al_get_time() at timer_init, in ticks
MaxStart == 1

\* largest number of framesteps counted
MaxFrames == 2

\* SMOOTH_FACTOR = 0.95, in hundredths
SMOOTH_FACTOR == 95

\* the weighted mean of timer_update, rounded to the nearest tick
smooth_mean(delta, smooth) ==
    (SMOOTH_FACTOR * delta + (100 - SMOOTH_FACTOR) * smooth + 50) \div 100

timer_init(t) ==
    [al_time           |-> t,
     start_time        |-> t,
     current_time      |-> 0,
     delta_time        |-> 0,
     smooth_delta_time |-> 0,
     frames            |-> 0,
     is_paused         |-> FALSE,
     pause_duration    |-> 0,
     pause_start_time  |-> 0]

\* an update that does not test whether the timer is paused
timer_update_unpaused(tm) ==
    LET new_time == tm.al_time
        delta == new_time - tm.current_time
        clamped == IF delta < MINIMUM_DELTA THEN MINIMUM_DELTA
                   ELSE IF delta > MAXIMUM_DELTA THEN MAXIMUM_DELTA
                   ELSE delta
    IN  [tm EXCEPT !.delta_time = clamped,
                   !.current_time = new_time,
                   !.smooth_delta_time = IF @ # 0 THEN smooth_mean(clamped, @)
                                         ELSE MINIMUM_DELTA,
                   !.frames = @ + 1]

\* this routine must be called at every cycle of the main loop
timer_update(tm) ==
    IF tm.is_paused
    THEN [tm EXCEPT !.delta_time = 0, !.smooth_delta_time = 0]
    ELSE LET new_time == tm.al_time
             delta == new_time - tm.current_time
             clamped == IF delta < MINIMUM_DELTA THEN MINIMUM_DELTA
                        ELSE IF delta > MAXIMUM_DELTA THEN MAXIMUM_DELTA
                        ELSE delta
         IN  [tm EXCEPT !.delta_time = clamped,
                        !.current_time = new_time,
                        !.smooth_delta_time = IF @ # 0 THEN smooth_mean(clamped, @)
                                              ELSE MINIMUM_DELTA,
                        !.frames = @ + 1]

timer_get_delta(tm) == tm.delta_time

timer_get_smooth_delta(tm) == tm.smooth_delta_time

timer_get_elapsed(tm) == tm.current_time

timer_get_frames(tm) == tm.frames

\* elapsed time since the application has started, at the moment of the call
timer_get_now(tm) == (tm.al_time - tm.start_time) - tm.pause_duration

timer_pause(tm) ==
    IF tm.is_paused THEN tm
    ELSE [tm EXCEPT !.is_paused = TRUE, !.pause_start_time = tm.al_time]

timer_resume(tm) ==
    IF ~tm.is_paused THEN tm
    ELSE [tm EXCEPT !.pause_duration = @ + (tm.al_time - tm.pause_start_time),
                    !.is_paused = FALSE]

\* the state after timer_init()
TimerInit ==
    /\ obstacle = <<>>
    /\ x1 = 0 /\ y1 = 0 /\ x2 = 0 /\ y2 = 0
    /\ mm = "MM_FLOOR" /\ layer_filter = OL_DEFAULT
    /\ call = "none" /\ ret = NULL
    /\ a = NULL /\ b = NULL
    /\ picked = [done |-> FALSE, value |-> NULL]
    /\ handle = "null"
    /\ heap = HeapInit
    /\ MenuIdle
    /\ \E t \in 0..MaxStart : timer = timer_init(t)
    /\ timer_last = [op |-> "init", updates |-> 0, now |-> <<>>]

\* the system clock advances
Tick ==
    /\ timer.al_time < MaxTime
    /\ timer' = [timer EXCEPT !.al_time = @ + 1]
    /\ timer_last' = [timer_last EXCEPT !.op = "tick"]
    /\ UNCHANGED <<obstacle, sensor, call, ret, a, b, picked, handle, heap, menuvars>>

TimerUpdate ==
    /\ timer.is_paused \/ timer.frames < MaxFrames
    /\ timer' = timer_update(timer)
    /\ timer_last' = [timer_last EXCEPT !.op = "update",
                                        !.updates = IF timer.is_paused THEN @ ELSE @ + 1]
    /\ UNCHANGED <<obstacle, sensor, call, ret, a, b, picked, handle, heap, menuvars>>

TimerPause ==
    /\ timer' = timer_pause(timer)
    /\ timer_last' = [timer_last EXCEPT !.op = "pause"]
    /\ UNCHANGED <<obstacle, sensor, call, ret, a, b, picked, handle, heap, menuvars>>

TimerResume ==
    /\ timer' = timer_resume(timer)
    /\ timer_last' = [timer_last EXCEPT !.op = "resume"]
    /\ UNCHANGED <<obstacle, sensor, call, ret, a, b, picked, handle, heap, menuvars>>

\* a call of timer_get_now: the history keeps the last two values returned
TimerGetNow ==
    /\ timer_last' = [timer_last EXCEPT
                         !.op = "get_now",
                         !.now = IF Len(@) = 0 THEN <<timer_get_now(timer)>>
                                 ELSE <<@[Len(@)], timer_get_now(timer)>>]
    /\ UNCHANGED <<obstacle, sensor, call, ret, a, b, picked, handle, heap, menuvars, timer>>

TimerNext == Tick \/ TimerUpdate \/ TimerPause \/ TimerResume \/ TimerGetNow

TimerSpec == TimerInit /\ [][TimerNext]_vars

(* ---------------------------------------------------------------------- *)
(* Reference notions used by the properties                                *)
(* ---------------------------------------------------------------------- *)

\* an obstacle is visible to a query when the query uses the default filter,
\* or the obstacle is on the default layer, or its layer equals the filter
Visible(o, lf) == lf = OL_DEFAULT \/ o.layer = OL_DEFAULT \/ o.layer = lf

\* positions of the map whose obstacle is visible and touches the rectangle
CandidatesAt(px1, py1, px2, py2, lf) ==
    { i \in 1..Len(obstacle) :
        Visible(obstacle[i], lf) /\ obstacle_got_collision(obstacle[i], px1, py1, px2, py2) }

\* candidates of the probe of the sensor, and of its point (x1,y1)
ProbeCandidates == CandidatesAt(x1, y1, x2, y2, layer_filter)
PointCandidates == CandidatesAt(x1, y1, x1, y1, layer_filter)

\* the point and the direction at which a mode compares ground positions
ComparePoint(pmm) ==
    CASE pmm = "MM_FLOOR"     -> <<x2, y2>>
      [] pmm = "MM_LEFTWALL"  -> <<x1, y2>>
      [] pmm = "MM_CEILING"   -> <<x2, y1>>
      [] pmm = "MM_RIGHTWALL" -> <<x2, y2>>

CompareDir(pmm) ==
    CASE pmm = "MM_FLOOR"     -> "GD_DOWN"
      [] pmm = "MM_LEFTWALL"  -> "GD_LEFT"
      [] pmm = "MM_CEILING"   -> "GD_UP"
      [] pmm = "MM_RIGHTWALL" -> "GD_RIGHT"

\* ground position of an obstacle at the compare point of the current mode
H(o) == obstacle_ground_position(o, ComparePoint(mm)[1], ComparePoint(mm)[2], CompareDir(mm))

BothPresent == a # NULL /\ b # NULL
BothSolid == BothPresent /\ a.solid /\ b.solid
BothOneWay == BothPresent /\ ~a.solid /\ ~b.solid

\* fold of the tie-break over a sequence of candidates, newest as first argument
RECURSIVE FoldPick(_)
FoldPick(cs) ==
    IF cs = <<>> THEN NULL
    ELSE pick_best_obstacle(cs[Len(cs)], FoldPick(SubSeq(cs, 1, Len(cs) - 1)), x1, y1, x2, y2, mm)

IsProbeCandidate(o) == Visible(o, layer_filter) /\ obstacle_got_collision(o, x1, y1, x2, y2)

(* ---------------------------------------------------------------------- *)
(* Properties                                                              *)
(* ---------------------------------------------------------------------- *)

\* C1: solid dominance. If at least one obstacle of the map that passes the
\* layer filter and intersects the probe is solid, get_best_obstacle_at
\* returns a solid obstacle, for every insertion order, mode and filter.
C1_SolidDominance ==
    (call = "get_best_obstacle_at" /\ \E i \in ProbeCandidates : obstacle[i].solid)
        => (ret # NULL /\ ret.solid)

\* a one-way platform scanned after a solid one, both candidates: the solid wins
C1_Witness ==
    /\ call = "get_best_obstacle_at"
    /\ Len(obstacle) = 2
    /\ ProbeCandidates = {1, 2}
    /\ obstacle[1].solid /\ ~obstacle[2].solid
    /\ ret = obstacle[1]

\* C2: get_best_obstacle_at returns none whenever no registered obstacle both
\* passes the layer filter and intersects the probe (the empty map included).
C2_NoneWithoutCandidate ==
    (call = "get_best_obstacle_at" /\ ProbeCandidates = {}) => ret = NULL

\* a map with obstacles, none of them a candidate
C2_Witness ==
    /\ call = "get_best_obstacle_at"
    /\ Len(obstacle) >= 2
    /\ ProbeCandidates = {}
    /\ \E i \in 1..Len(obstacle) : ~Visible(obstacle[i], layer_filter)
    /\ \E i \in 1..Len(obstacle) : ~obstacle_got_collision(obstacle[i], x1, y1, x2, y2)
    /\ ret = NULL

\* C3: get_best_obstacle_at only returns an obstacle that is registered in the
\* map, is not ignored by the layer filter and intersects the probe; a solid
\* obstacle that the probe does not touch never wins over a one-way candidate.
C3_ResultIsCandidate ==
    (call = "get_best_obstacle_at" /\ ret # NULL)
        => \E i \in ProbeCandidates : obstacle[i] = ret

\* a visible solid obstacle not touched by the probe, a one-way one touched
C3_Witness ==
    /\ call = "get_best_obstacle_at"
    /\ \E i \in 1..Len(obstacle) :
          /\ obstacle[i].solid
          /\ Visible(obstacle[i], layer_filter)
          /\ ~obstacle_got_collision(obstacle[i], x1, y1, x2, y2)
    /\ ret # NULL /\ ~ret.solid

\* C4: for two solid obstacles pick_best_obstacle returns a iff ha < hb in
\* FLOOR mode (at (x2,y2), DOWN) and RIGHT_WALL mode (at (x2,y2), RIGHT), and
\* a iff ha >= hb in LEFT_WALL mode (at (x1,y2), LEFT) and CEILING mode (at
\* (x2,y1), UP); b otherwise.
C4_SolidTable ==
    (picked.done /\ BothSolid) =>
        picked.value =
            IF \/ mm \in {"MM_FLOOR", "MM_RIGHTWALL"} /\ H(a) < H(b)
               \/ mm \in {"MM_LEFTWALL", "MM_CEILING"} /\ H(a) >= H(b)
            THEN a ELSE b

\* FLOOR mode, two different solid obstacles with h_a < h_b: a is selected
C4_Witness ==
    /\ picked.done /\ BothSolid /\ a # b
    /\ mm = "MM_FLOOR" /\ x1 < x2
    /\ H(a) < H(b)
    /\ picked.value = a

C7_OneWayTable ==
    (picked.done /\ BothOneWay) =>
        /\ mm = "MM_FLOOR" =>
              picked.value =
                  IF obstacle_ground_position(a, x2, y2, "GD_DOWN")
                         >= obstacle_ground_position(b, x2, y2, "GD_DOWN")
                  THEN a ELSE b
        /\ mm = "MM_LEFTWALL" =>
              picked.value =
                  IF obstacle_ground_position(a, x1, y2, "GD_LEFT")
                         < obstacle_ground_position(b, x1, y2, "GD_LEFT")
                  THEN a ELSE b
        /\ mm = "MM_CEILING" =>
              picked.value =
                  IF obstacle_ground_position(a, x2, y1, "GD_UP")
                         < obstacle_ground_position(b, x2, y1, "GD_UP")
                  THEN a ELSE b

\* CEILING mode, two different one-way platforms that tie: b is selected
C7_Witness ==
    /\ picked.done /\ BothOneWay /\ a # b
    /\ mm = "MM_CEILING" /\ y1 < y2
    /\ H(a) = H(b)
    /\ picked.value = b

\* C8: None is the identity of the tie-break: pick_best_obstacle(a, None) = a
\* and pick_best_obstacle(None, b) = b for every mode and probe, whatever the
\* solidity and ground position of the present obstacle.
C8_NullIdentity ==
    picked.done =>
        /\ b = NULL => picked.value = a
        /\ a = NULL => picked.value = b

\* a one-way platform against None, and None against a solid obstacle
C8_Witness ==
    /\ picked.done
    /\ \/ a # NULL /\ ~a.solid /\ b = NULL /\ picked.value = a
       \/ a = NULL /\ b # NULL /\ b.solid /\ picked.value = b

\* C9: layer visibility. In the three queries an obstacle is skipped iff
\* filter # DEFAULT, its layer # DEFAULT and its layer # filter: the answer
\* of each query is the answer computed from the visible obstacles alone.
C9_LayerVisibility ==
    /\ call = "get_best_obstacle_at" =>
          ret = FoldPick(SelectSeq(obstacle, IsProbeCandidate))
    /\ call = "obstacle_exists" =>
          ret.bool = (PointCandidates # {})
    /\ call = "solid_exists" =>
          ret.bool = (\E i \in PointCandidates : obstacle[i].solid)

\* a solid obstacle on another non-default layer touches the probe, but the
\* query returns a one-way platform of the filter's layer
C9_Witness ==
    /\ call = "get_best_obstacle_at"
    /\ layer_filter # OL_DEFAULT
    /\ \E i \in 1..Len(obstacle) :
          /\ obstacle[i].solid
          /\ obstacle[i].layer \notin {OL_DEFAULT, layer_filter}
          /\ obstacle_got_collision(obstacle[i], x1, y1, x2, y2)
    /\ ret # NULL /\ ~ret.solid /\ ret.layer = layer_filter

\* C10: obstacle_exists(x, y, filter) is true iff at least one registered
\* obstacle is not ignored by the filter and collides with the point
\* rectangle (x,y,x,y); solidity is irrelevant.
C10_ObstacleExists ==
    call = "obstacle_exists" =>
        (ret.bool <=>
            \E i \in 1..Len(obstacle) :
                /\ Visible(obstacle[i], layer_filter)
                /\ obstacle_got_collision(obstacle[i], x1, y1, x1, y1))

\* only one-way platforms at the point: obstacle_exists is true
C10_Witness ==
    /\ call = "obstacle_exists"
    /\ ret.bool
    /\ \A i \in PointCandidates : ~obstacle[i].solid
    /\ \E i \in 1..Len(obstacle) : obstacle[i].solid

\* the names of the three queries
Queries == {"get_best_obstacle_at", "obstacle_exists", "solid_exists"}

\* C11: solid_exists(x, y, filter) is true iff at least one registered
\* obstacle is solid, not ignored by the filter and collides with the point;
\* hence solid_exists true implies obstacle_exists true, and one-way
\* platforms alone at the point give obstacle_exists true, solid_exists false.
C11_SolidExists ==
    call = "solid_exists" =>
        /\ ret.bool <=>
              \E i \in 1..Len(obstacle) :
                  /\ obstacle[i].solid
                  /\ Visible(obstacle[i], layer_filter)
                  /\ obstacle_got_collision(obstacle[i], x1, y1, x1, y1)
        /\ ret.bool => obstaclemap_obstacle_exists(obstacle, x1, y1, layer_filter)
        /\ (PointCandidates # {} /\ \A i \in PointCandidates : ~obstacle[i].solid)
              => (~ret.bool /\ obstaclemap_obstacle_exists(obstacle, x1, y1, layer_filter))

\* only one-way platforms at the point: solid_exists is false
C11_Witness ==
    /\ call = "solid_exists"
    /\ ~ret.bool
    /\ PointCandidates # {}
    /\ \E i \in 1..Len(obstacle) : obstacle[i].solid

\* C12: right after create and after clear the length of the map is 0 and
\* every query gives the empty answer (none, false, false) for every probe,
\* point, mode and filter; an obstacle added afterwards is visible again.
C12_EmptyAfterClear ==
    /\ call \in {"create", "clear"} =>
          /\ Len(obstacle) = 0
          /\ \A px1 \in XCoord, px2 \in XCoord, py1 \in YCoord, py2 \in YCoord,
                pmm \in MovModes, lf \in Layers :
                (px1 <= px2 /\ py1 <= py2) =>
                    /\ obstaclemap_get_best_obstacle_at(obstacle, px1, py1, px2, py2, pmm, lf) = NULL
                    /\ ~obstaclemap_obstacle_exists(obstacle, px1, py1, lf)
                    /\ ~obstaclemap_solid_exists(obstacle, px1, py1, lf)
    /\ (call \in Queries /\ Len(obstacle) = 0) =>
          ret = IF call = "get_best_obstacle_at" THEN NULL ELSE [bool |-> FALSE]
    /\ call = "add_obstacle" =>
          LET o == obstacle[Len(obstacle)]
          IN  /\ obstaclemap_obstacle_exists(obstacle, Region[o.id].left, Region[o.id].top, o.layer)
              /\ obstaclemap_get_best_obstacle_at(obstacle, Region[o.id].left, Region[o.id].top,
                     Region[o.id].right, Region[o.id].bottom, mm, o.layer) # NULL

\* the map has just been cleared
C12_Witness ==
    /\ call = "clear"
    /\ Len(obstacle) = 0
    /\ handle = "valid"

\* C13: add_obstacle appends exactly one reference at the end: the length
\* grows by one, the earlier entries keep their order, and an obstacle that
\* is already registered is appended again.
C13_AppendsOne ==
    [][call' = "add_obstacle" =>
          /\ Len(obstacle') = Len(obstacle) + 1
          /\ SubSeq(obstacle', 1, Len(obstacle)) = obstacle
          /\ obstacle'[Len(obstacle')] \in LevelObstacles]_vars

\* an obstacle has just been added a second time
C13_Witness ==
    /\ call = "add_obstacle"
    /\ Len(obstacle) = 3
    /\ obstacle[3] = obstacle[1]
    /\ obstacle[2] # obstacle[1]

\* the exchanges of two positions of a map of each length. Every insertion
\* order of the same obstacles is reached from the present one by a chain of
\* exchanges, and every map of that chain is itself a reachable state with the
\* same sensor: a relation between the answers of a map and of its exchanges
\* that is transitive and holds in every reachable state holds between the
\* answers of any two insertion orders.
Exchanges == [n \in 0..MaxLen |->
                 { [k \in 1..n |-> IF k = i THEN j ELSE IF k = j THEN i ELSE k] :
                       i \in 1..n, j \in 1..n }]

\* the map with the same references inserted in the order given by p
Reordered(p) == [i \in 1..Len(obstacle) |-> obstacle[p[i]]]

\* the answer of the query of the sensor on another map
BestOf(map) == obstaclemap_get_best_obstacle_at(map, x1, y1, x2, y2, mm, layer_filter)

\* C14: the result of get_best_obstacle_at can depend on the insertion order,
\* and two maps holding the same obstacles in different orders return
\* different obstacles only when these are two candidates of equal solidity
\* with equal ground positions at the compare point of the mode. Stated
\* between a map and each of its exchanges (see Exchanges).
C14_OrderDependsOnlyOnTies ==
    call = "get_best_obstacle_at" =>
        \A p \in Exchanges[Len(obstacle)] :
            LET other == BestOf(Reordered(p))
            IN  other # ret =>
                    /\ ret # NULL /\ other # NULL
                    /\ \E i \in ProbeCandidates : obstacle[i] = other
                    /\ ret.solid = other.solid
                    /\ H(ret) = H(other)

\* another insertion order of the same obstacles gives another answer
C14_Witness ==
    /\ call = "get_best_obstacle_at"
    /\ \E p \in Exchanges[Len(obstacle)] : BestOf(Reordered(p)) # ret

\* C15: the three queries are read-only: they leave the obstacle sequence
\* unchanged, so a repeated query returns the same answer.
C15_QueriesReadOnly ==
    [][call' \in Queries =>
          /\ obstacle' = obstacle
          /\ call' = call => ret' = ret]_vars

\* a query has answered on a map that holds obstacles
C15_Witness ==
    /\ call \in Queries
    /\ Len(obstacle) = MaxLen
    /\ ret \notin {NULL, [bool |-> FALSE]}

\* C16: the map is a non-owning index: no operation changes or destroys an
\* obstacle, every reference of the map designates a live obstacle with the
\* attributes it was created with, and destroy leaves a null handle.
C16_NonOwning ==
    /\ heap = HeapInit
    /\ \A i \in 1..Len(obstacle) : heap[obstacle[i].id] = obstacle[i]
    /\ call = "destroy" <=> handle = "null"

\* the map has been destroyed
C16_Witness ==
    /\ call = "destroy"
    /\ handle = "null"
    /\ \A i \in DOMAIN heap : heap[i] # Freed

\* candidates that are solid, and the class of candidates that wins
SolidCandidates == {i \in ProbeCandidates : obstacle[i].solid}
WinningCandidates == IF SolidCandidates # {} THEN SolidCandidates ELSE ProbeCandidates

\* ground positions of a set of positions of the map
Heights(S) == {H(obstacle[i]) : i \in S}

\* the extremal ground position of the winning class
Extremum ==
    IF SolidCandidates # {}
    THEN IF mm \in {"MM_FLOOR", "MM_RIGHTWALL"}
         THEN SetMin(Heights(SolidCandidates)) ELSE SetMax(Heights(SolidCandidates))
    ELSE IF mm \in {"MM_FLOOR", "MM_RIGHTWALL"}
         THEN SetMax(Heights(ProbeCandidates)) ELSE SetMin(Heights(ProbeCandidates))

\* C17: fold extremum. If a candidate is solid the ground position of the
\* result is the minimum over the solid candidates in FLOOR and RIGHT_WALL
\* modes and the maximum in LEFT_WALL and CEILING modes; with one-way
\* candidates only it is the maximum over the candidates in FLOOR and
\* RIGHT_WALL modes and the minimum in CEILING and LEFT_WALL modes.
C17_FoldExtremum ==
    (call = "get_best_obstacle_at" /\ ProbeCandidates # {}) =>
        /\ ret # NULL
        /\ ret.solid <=> SolidCandidates # {}
        /\ H(ret) = Extremum

\* three candidates of one solidity, the extremal one inserted in the middle
C17_Witness ==
    /\ call = "get_best_obstacle_at"
    /\ Len(obstacle) = 3
    /\ WinningCandidates = {1, 2, 3}
    /\ H(obstacle[2]) # H(obstacle[1])
    /\ H(obstacle[2]) # H(obstacle[3])
    /\ ret = obstacle[2]

\* positions of the winning class that share the extremal ground position
Tied == {i \in WinningCandidates : H(obstacle[i]) = Extremum}

\* C18: tie resolution. Among the candidates of the winning class that share
\* the extremal ground position, the earliest inserted is returned for solid
\* candidates in FLOOR and RIGHT_WALL modes and one-way candidates in CEILING
\* and LEFT_WALL modes, the latest inserted for solid candidates in LEFT_WALL
\* and CEILING modes and one-way candidates in FLOOR and RIGHT_WALL modes.
C18_TieResolution ==
    (call = "get_best_obstacle_at" /\ ProbeCandidates # {}) =>
        ret = IF (SolidCandidates # {}) = (mm \in {"MM_FLOOR", "MM_RIGHTWALL"})
              THEN obstacle[SetMin(Tied)]
              ELSE obstacle[SetMax(Tied)]

\* two different obstacles tie, the earliest inserted is returned
C18_Witness ==
    /\ call = "get_best_obstacle_at"
    /\ ProbeCandidates # {}
    /\ obstacle[SetMin(Tied)] # obstacle[SetMax(Tied)]
    /\ ret = obstacle[SetMin(Tied)]

\* no two different candidates of the same solidity have equal ground positions
NoTie ==
    \A i \in ProbeCandidates, j \in ProbeCandidates :
        (obstacle[i] # obstacle[j] /\ obstacle[i].solid = obstacle[j].solid)
            => H(obstacle[i]) # H(obstacle[j])

\* C19: order independence without ties. If no two candidates of the same
\* solidity have equal ground positions, every insertion order of the same
\* obstacles gives the same result; and pick_best_obstacle(a, b) =
\* pick_best_obstacle(b, a) whenever a, b differ in solidity or ha # hb.
\* The orders are stated between a map and each of its exchanges (NoTie is
\* kept by an exchange), the pairs a, b are the obstacles of the map.
C19_OrderIndependence ==
    /\ (call = "get_best_obstacle_at" /\ NoTie) =>
          \A p \in Exchanges[Len(obstacle)] : BestOf(Reordered(p)) = ret
    /\ call = "get_best_obstacle_at" =>
          \A i \in 1..Len(obstacle), j \in 1..Len(obstacle) :
              (obstacle[i].solid # obstacle[j].solid \/ H(obstacle[i]) # H(obstacle[j])) =>
                  pick_best_obstacle(obstacle[i], obstacle[j], x1, y1, x2, y2, mm)
                      = pick_best_obstacle(obstacle[j], obstacle[i], x1, y1, x2, y2, mm)

\* three candidates, two of them of the same solidity, and no tie
C19_Witness ==
    /\ call = "get_best_obstacle_at"
    /\ NoTie
    /\ ProbeCandidates = {1, 2, 3}
    /\ Cardinality({obstacle[i] : i \in ProbeCandidates}) = 3
    /\ ret # obstacle[3]

\* the answer of get_best_obstacle_at on the point (x1,y1) of the sensor
BestAtPoint == obstaclemap_get_best_obstacle_at(obstacle, x1, y1, x1, y1, mm, layer_filter)

\* C20: the point queries agree with the best-obstacle query on a degenerate
\* probe: obstacle_exists(x,y,filter) is true iff get_best_obstacle_at(x,y,
\* x,y,mode,filter) is not none, and solid_exists(x,y,filter) is true iff the
\* obstacle it returns is solid.
C20_PointQueriesAgree ==
    /\ call = "obstacle_exists" => (ret.bool <=> BestAtPoint # NULL)
    /\ call = "solid_exists" => (ret.bool <=> (BestAtPoint # NULL /\ BestAtPoint.solid))

\* a solid and a one-way obstacle at the point: solid_exists is true
C20_Witness ==
    /\ call = "solid_exists"
    /\ ret.bool
    /\ \E i \in PointCandidates : ~obstacle[i].solid
    /\ BestAtPoint.solid

\* the answers of the three queries of the sensor on a map
AnswersOf(map) ==
    [exists |-> obstaclemap_obstacle_exists(map, x1, y1, layer_filter),
     solid  |-> obstaclemap_solid_exists(map, x1, y1, layer_filter)]

\* C21: duplicate registrations are harmless for queries. Adding an obstacle
\* that is already registered does not change the answer of obstacle_exists
\* or solid_exists, and does not change the obstacle get_best_obstacle_at
\* returns when no two distinct candidates tie.
C21_DuplicatesHarmless ==
    [][(call' = "add_obstacle" /\ Len(obstacle') > 0
            /\ \E i \in 1..Len(obstacle) : obstacle[i] = obstacle'[Len(obstacle')]) =>
          /\ AnswersOf(obstacle') = AnswersOf(obstacle)
          /\ NoTie => BestOf(obstacle') = BestOf(obstacle)]_vars

\* a candidate has just been registered a second time, next to another
\* candidate that does not tie with it
C21_Witness ==
    /\ call = "add_obstacle"
    /\ Len(obstacle) = 3
    /\ obstacle[3] = obstacle[1]
    /\ ProbeCandidates = {1, 2, 3}
    /\ obstacle[2] # obstacle[1]
    /\ obstacle[2].solid = obstacle[1].solid
    /\ NoTie

\* C22: button state PRESSED means held down. A button is PRESSED only while
\* a touch that started on that button is still being held, and after a
\* touch-end event handled in WAITING no button remains PRESSED.
C22_PressedMeansHeld ==
    menu.scene = "menu" =>
        /\ \A bt \in Buttons :
              menu.button[bt] = "PRESSED" =>
                  /\ menu.mouse_input.down
                  /\ \E o \in menu_last.origin : button_at(o) = bt
        /\ (menu_last.op = "update" /\ menu_last.event = "end") =>
              \A bt \in Buttons : menu.button[bt] # "PRESSED"

\* C23: triggering. In WAITING a button becomes TRIGGERED, and the menu moves
\* to its TRIGGERED_STATE, only in an update in which a touch ended on that
\* button that had also started on it; in one update at most one button
\* becomes TRIGGERED.
C23_TriggerOnlyByOwnTouch ==
    (menu.scene = "menu" /\ menu_last.op = "update") =>
        /\ Cardinality(menu_last.fired) <= 1
        /\ \A bt \in menu_last.fired :
              \E t \in menu_last.ended : button_at(t.start) = bt /\ button_at(t.end) = bt
        /\ \A bt \in Buttons \ {BUTTON_BACK} :
              menu.state = TRIGGERED_STATE[bt] =>
                  \E t \in menu_last.ended : button_at(t.start) = bt /\ button_at(t.end) = bt

\* the state changes of the menu across mobilemenu_update calls
MenuTransitions ==
    {<<"APPEARING", "WAITING">>,
     <<"WAITING", "TRIGGERED_BACK">>, <<"WAITING", "TRIGGERED_SCREENSHOT">>,
     <<"WAITING", "TRIGGERED_DEBUG">>, <<"WAITING", "TRIGGERED_INFO">>,
     <<"TRIGGERED_BACK", "DISAPPEARING">>, <<"TRIGGERED_DEBUG", "DISAPPEARING">>,
     <<"TRIGGERED_SCREENSHOT", "WAITING">>, <<"TRIGGERED_INFO", "WAITING">>}

TriggeredStates == {TRIGGERED_STATE[bt] : bt \in Buttons}

\* C24: transition relation. Across mobilemenu_update calls the state only
\* changes along MenuTransitions, every TRIGGERED_* state lasts exactly one
\* update, and a press of the hardware back button in WAITING leads to
\* TRIGGERED_BACK even if an on-screen button was triggered in that update.
C24_Transitions ==
    [][menu_last'.op = "update" /\ menu_last' # menu_last =>
          /\ menu'.state # menu.state => <<menu.state, menu'.state>> \in MenuTransitions
          /\ menu.state \in TriggeredStates => menu'.state # menu.state
          /\ (menu.state = "WAITING" /\ menu'.input.down /\ ~menu.input.down)
                => menu'.state = "TRIGGERED_BACK"]_vars

\* the hardware back button was pressed in the update in which the on-screen
\* button INFO was triggered
C24_Witness ==
    /\ menu.scene = "menu"
    /\ menu_last.op = "update"
    /\ menu_last.fired = {BUTTON_INFO}
    /\ menu.state = "TRIGGERED_BACK"

\* C25: exit. scenestack_pop is called only in state DISAPPEARING and only
\* when the alpha has reached 0; a menu that is DISAPPEARING leaves that
\* state only by the next mobilemenu_init; an update that reads a frame delta
\* of 0 does not pop; and if every update reads a positive frame delta a menu
\* in DISAPPEARING eventually calls scenestack_pop.
C25_Exit ==
    /\ [][(menu.scene = "menu" /\ menu'.scene = "popped")
              => (menu.state = "DISAPPEARING" /\ menu'.alpha = 0)]_vars
    /\ [][(menu.state = "DISAPPEARING" /\ menu'.state # "DISAPPEARING")
              => menu_last'.op = "init"]_vars
    /\ [][(menu.scene = "menu" /\ menu.state = "DISAPPEARING" /\ menu_last'.frozen)
              => menu'.scene = "menu"]_vars
    /\ [](~menu_last.frozen) =>
          ((menu.state = "DISAPPEARING") ~> (menu.scene = "popped"))

\* the menu has faded out and has been popped
C25_Witness ==
    /\ menu.scene = "popped"
    /\ menu.state = "DISAPPEARING"
    /\ menu.alpha = 0
    /\ menu_last.op = "update"
    /\ menu.touch_start # INITIAL_BUTTON_POSITION

\* C26: timer update and pause. A timer_update call while the timer is paused
\* sets delta and smooth delta to 0 and leaves the frame counter and the
\* elapsed time unchanged; a timer_update call when not paused increases the
\* frame counter by exactly one; the frame counter equals the number of
\* non-paused updates; timer_pause when already paused and timer_resume when
\* not paused change nothing.
C26_UpdateAndPause ==
    /\ [][(timer_last'.op = "update" /\ timer.is_paused) =>
              /\ timer_get_delta(timer') = 0
              /\ timer_get_smooth_delta(timer') = 0
              /\ timer_get_frames(timer') = timer_get_frames(timer)
              /\ timer_get_elapsed(timer') = timer_get_elapsed(timer)]_vars
    /\ [][(timer_last'.op = "update" /\ ~timer.is_paused) =>
              timer_get_frames(timer') = timer_get_frames(timer) + 1]_vars
    /\ [][(timer_last'.op = "pause" /\ timer.is_paused) => timer' = timer]_vars
    /\ [][(timer_last'.op = "resume" /\ ~timer.is_paused) => timer' = timer]_vars
    /\ [](timer_last.op # "none" => timer_get_frames(timer) = timer_last.updates)

\* an update made while the timer is paused, after framesteps were counted
\* and while the clock went on
C26_Witness ==
    /\ timer_last.op = "update"
    /\ timer.is_paused
    /\ timer.delta_time = 0
    /\ timer.frames = 2
    /\ timer_last.updates = 2
    /\ timer.al_time > timer.current_time

\* C27: timer_get_now is monotonic. With a non-decreasing system clock, for
\* any interleaving of timer_update, timer_pause and timer_resume, the later
\* of two successive calls of timer_get_now never returns a smaller value.
C27_NowMonotonic ==
    (timer_last.op # "none" /\ Len(timer_last.now) = 2) =>
        timer_last.now[2] >= timer_last.now[1]

\* C28: the defensive fallback of pick_best_obstacle is unreachable for
\* legal input: for each of the four movement modes and any two present
\* obstacles the function returns from a switch case, never from the final
\* 'return a'; two one-way platforms are always decided by the one-way
\* comparison, never by the comparison of the tallest obstacle.
C28_FallbackUnreachable ==
    (picked.done /\ BothPresent) =>
        /\ pick_return_site(a, b, mm) \in {"solid", "shortest", "tallest"}
        /\ BothOneWay =>
              /\ pick_return_site(a, b, mm) = "shortest"
              /\ picked.value = pick_shortest(a, b, x1, y1, x2, y2, mm)
        /\ BothSolid => pick_return_site(a, b, mm) = "tallest"

\* two one-way platforms in LEFT_WALL mode on which the one-way comparison
\* and the comparison of the tallest obstacle disagree
C28_Witness ==
    /\ picked.done /\ BothOneWay /\ a # b
    /\ mm = "MM_LEFTWALL"
    /\ pick_shortest(a, b, x1, y1, x2, y2, mm) # pick_tallest(a, b, x1, y1, x2, y2, mm)
    /\ picked.value = pick_shortest(a, b, x1, y1, x2, y2, mm)

====
